---------------------------- MODULE Spec2Model ----------------------------
(***************************************************************************)
(* A model of degski/gmp_random: the JSF generator family (jsf_detail::jsf),*)
(* the limb view static_mpz_t, and the two big-integer congruential         *)
(* generators GMPRng and GMPRng2 of src/gmp_random/main.cpp.                *)
(*                                                                         *)
(* A machine word of the JSF generators is a sequence of W bits, least     *)
(* significant first (word[1] is bit 0), so that 32- and 64-bit words are   *)
(* computed exactly.  A limb of the big-integer generators is a number in   *)
(* 0 .. LimbBase-1; the code's limb is 64 bits wide, the model's LimbBits.  *)
(***************************************************************************)
EXTENDS Integers, Sequences, FiniteSets, TLC

VARIABLES
    jsf_par,    \* the template arguments of the jsf instances: [W, p, q, r]
    jsf,        \* the jsf object: [a, b, c, d], its four state words
    jsf_ret,    \* the word operator() last returned since jsf was constructed or
                \* seeded (<<>>: none yet)
    jsf_n,      \* advances performed since jsf was constructed or seeded
    jsf_sd,     \* the seed jsf was last constructed or seeded with
    jsf_seeded, \* TRUE once seed() has been called on jsf
    S,          \* the template argument S of GMPRng<S> and GMPRng2<S>
    rng,        \* the GMPRng<S> object
    out,        \* the S-limb values GMPRng::operator() has returned, in order
    rng2,       \* the GMPRng2<S> object
    out2,       \* the words GMPRng2::operator() has returned, in order
    snap2,      \* the S-limb state of rng2 after construction and after each advance()
    views,      \* view slot -> a static_mpz_t, or NoView for a slot not yet constructed
    bufs,       \* buffer -> the limbs of a static_mpz_storage_t
    aborted,    \* TRUE once an assert has failed (the program has been aborted)
    view_ops    \* the number of operations performed on the views so far

jsfvars  == <<jsf_par, jsf, jsf_ret, jsf_n, jsf_sd, jsf_seeded>>
rngvars  == <<rng, out>>
rng2vars == <<rng2, out2, snap2>>
viewvars == <<views, bufs, aborted, view_ops>>
vars     == <<jsf_par, jsf, jsf_ret, jsf_n, jsf_sd, jsf_seeded, S, rng, out, rng2, out2, snap2, views, bufs, aborted, view_ops>>

---------------------------------------------------------------------------
(* Bounds of the model. *)

\* Advances of one jsf instance that are followed after its construction or seeding.
MaxJsfCalls == 4
\* Width of a limb in bits (the code's mp_limb_t has 64).
LimbBits == 2
\* S ranges over the even numbers 2, 4, .., 2 * MaxHalfS.
MaxHalfS == 2
\* Calls of GMPRng::operator() that are followed.
MaxCalls == 3
\* advance() calls of GMPRng2 that are followed; operator() is followed for
\* (MaxRefresh + 1) * S calls.
MaxRefresh == 2
\* The views are followed over a static_mpz_storage_t<2 * n> and a
\* static_mpz_storage_t<n>, for n = 1 .. MaxViewS.
MaxViewS == 2
\* Operations on the views that are followed.
MaxViewOps == 4

---------------------------------------------------------------------------
(* Machine words as bit sequences. *)

Pow2(n) == 2 ^ n

Bit == {0, 1}

\* A word given bit by bit, as the sequence of its bits.
AsWord(f) == SubSeq(f, 1, Len(f))

\* The hexadecimal literal with digits h (most significant first), converted
\* to a W-bit unsigned type: truncated, or extended with zeros.
FromHex(h, W) ==
    AsWord([i \in 1..W |->
        LET nib == (i - 1) \div 4
        IN  IF nib >= Len(h) THEN 0
            ELSE (h[Len(h) - nib] \div Pow2((i - 1) % 4)) % 2])

\* x << k and x >> k on a W-bit unsigned word (the result converted back to itype).
\* (The operands are bound to their values before the bits are computed.)
ShiftLeft(x, k) ==
    CHOOSE z \in { AsWord([i \in 1..Len(u) |-> IF i - k >= 1 THEN u[i - k] ELSE 0]) :
                   u \in {x} } : TRUE
ShiftRight(x, k) ==
    CHOOSE z \in { AsWord([i \in 1..Len(u) |-> IF i + k <= Len(u) THEN u[i + k] ELSE 0]) :
                   u \in {x} } : TRUE

BitOr(x, y) ==
    CHOOSE z \in { AsWord([i \in 1..Len(u) |-> IF u[i] = 1 \/ v[i] = 1 THEN 1 ELSE 0]) :
                   u \in {x}, v \in {y} } : TRUE
BitXor(x, y) ==
    CHOOSE z \in { AsWord([i \in 1..Len(u) |-> IF u[i] # v[i] THEN 1 ELSE 0]) :
                   u \in {x}, v \in {y} } : TRUE
BitNot(x) ==
    CHOOSE z \in { AsWord([i \in 1..Len(u) |-> 1 - u[i]]) : u \in {x} } : TRUE

\* Byte b (0 is the least significant) of a word, as a number, and back.
ByteOf(x, b) ==
    x[8 * b + 1] + 2 * x[8 * b + 2] + 4 * x[8 * b + 3] + 8 * x[8 * b + 4]
    + 16 * x[8 * b + 5] + 32 * x[8 * b + 6] + 64 * x[8 * b + 7] + 128 * x[8 * b + 8]

ByteBits(v) ==
    << v % 2, (v \div 2) % 2, (v \div 4) % 2, (v \div 8) % 2,
       (v \div 16) % 2, (v \div 32) % 2, (v \div 64) % 2, (v \div 128) % 2 >>

\* x + y + carry on an unsigned type of W = 8 * sizeof bits, from byte b on: the
\* sum modulo 2^W (the carry out of the top byte is dropped).
RECURSIVE AddBytes(_, _, _, _)
AddBytes(x, y, b, carry) ==
    IF 8 * b >= Len(x) THEN <<>>
    ELSE CHOOSE z \in { ByteBits(s % 256) \o AddBytes(x, y, b + 1, s \div 256) :
                        s \in {ByteOf(x, b) + ByteOf(y, b) + carry} } : TRUE

WordAdd(x, y) == CHOOSE z \in { AddBytes(u, v, 0, 0) : u \in {x}, v \in {y} } : TRUE
\* Unsigned x - y: x + ~y + 1 modulo 2^W.
WordSub(x, y) == CHOOSE z \in { AddBytes(u, v, 0, 1) : u \in {x}, v \in {BitNot(y)} } : TRUE

---------------------------------------------------------------------------
(* jsf_detail::jsf<itype, rtype, p, q, r> *)

\* Instantiations of the template that the source names (W = 8 * sizeof(itype)).
jsf8na  == [W |-> 8,  p |-> 1,  q |-> 4,  r |-> 0]
jsf16na == [W |-> 16, p |-> 13, q |-> 8,  r |-> 0]
jsf32na == [W |-> 32, p |-> 27, q |-> 17, r |-> 0]
jsf32rq == [W |-> 32, p |-> 23, q |-> 16, r |-> 11]
jsf64na == [W |-> 64, p |-> 39, q |-> 11, r |-> 0]
jsf64ra == [W |-> 64, p |-> 7,  q |-> 13, r |-> 37]

JsfFamilies == {jsf8na, jsf16na, jsf32na, jsf32rq, jsf64na, jsf64ra}

\* The literal 0xf1ea5eed that a_ is set from, and the default seed
\* 0xcafe5eed00000001ULL, as hexadecimal digits.
HexA == <<15, 1, 14, 10, 5, 14, 14, 13>>
HexDefaultSeed == <<12, 10, 15, 14, 5, 14, 14, 13, 0, 0, 0, 0, 0, 0, 0, 1>>

\* Seeds a caller passes, as hexadecimal digits: 0, the default, 0xffffffffffffffff.
SeedHex == { <<0>>, HexDefaultSeed,
             <<15, 15, 15, 15, 15, 15, 15, 15, 15, 15, 15, 15, 15, 15, 15, 15>> }

JsfSeeds(W) == { FromHex(h, W) : h \in SeedHex }

\* A mutant of rotate: the right shift by k instead of by ITYPE_BITS - k.
rotate_shift_k(x, k) == BitOr(ShiftLeft(x, k), ShiftRight(x, k))

\* static itype rotate ( itype x, unsigned int k )
rotate(x, k) == BitOr(ShiftLeft(x, k), ShiftRight(x, Len(x) - k))

\* A mutant of advance: d_ is computed from the a_ read before it was assigned.
advance_old_a(st, par) ==
    LET e  == WordSub(st.a, rotate(st.b, par.p))
        a1 == BitXor(st.b, rotate(st.c, par.q))
        b1 == WordAdd(st.c, IF par.r # 0 THEN rotate(st.d, par.r) ELSE st.d)
        c1 == WordAdd(st.d, e)
        d1 == WordAdd(e, st.a)
    IN  [a |-> a1, b |-> b1, c |-> c1, d |-> d1]

\* void advance ( ): the five assignments, in the order the code makes them.
advance(st, par) ==
    LET e  == WordSub(st.a, rotate(st.b, par.p))
        a1 == BitXor(st.b, rotate(st.c, par.q))
        b1 == WordAdd(st.c, IF par.r # 0 THEN rotate(st.d, par.r) ELSE st.d)
        c1 == WordAdd(st.d, e)
        d1 == WordAdd(e, a1)
    IN  [a |-> a1, b |-> b1, c |-> c1, d |-> d1]

\* for ( unsigned int i = 0; i < n; ++i ) advance ( );
RECURSIVE advance_loop(_, _, _)
advance_loop(st, par, n) ==
    IF n = 0 THEN st
    ELSE CHOOSE nx \in { advance(prev, par) : prev \in {advance_loop(st, par, n - 1)} } : TRUE

\* The number of warm-up rounds of the constructor and of seed().
WarmUp == 20

\* jsf ( const itype seed ): the member initialisers, then the warm-up loop.
jsf_ctor(seed, par) ==
    advance_loop([a |-> FromHex(HexA, par.W), b |-> seed, c |-> seed, d |-> seed],
                 par, WarmUp)

\* A mutant of seed: a_ is left as it was.
seed_keeps_a(st, seed, par) ==
    advance_loop([st EXCEPT !.b = seed, !.c = seed, !.d = seed], par, WarmUp)

\* void seed ( const itype seed ): the four assignments to the members of the
\* object (whose state is st), then the warm-up loop.
jsf_seed(st, seed, par) ==
    LET s1 == [st EXCEPT !.a = FromHex(HexA, par.W)]
        s2 == [s1 EXCEPT !.b = seed]
        s3 == [s2 EXCEPT !.c = seed]
        s4 == [s3 EXCEPT !.d = seed]
    IN  advance_loop(s4, par, WarmUp)

\* bool operator== ( const jsf & rhs )
jsf_eq(x, y) == (x.a = y.a) /\ (x.b = y.b) /\ (x.c = y.c) /\ (x.d = y.d)

mcgvars == <<S, rng, out, rng2, out2, snap2>>

McgIdle ==
    /\ S = 0
    /\ rng = <<>>
    /\ out = <<>>
    /\ rng2 = <<>>
    /\ out2 = <<>>
    /\ snap2 = <<>>

ViewIdle ==
    /\ views = <<>>
    /\ bufs = <<>>
    /\ aborted = FALSE
    /\ view_ops = 0

JsfIdle ==
    /\ jsf_par = <<>>
    /\ jsf = <<>>
    /\ jsf_ret = <<>>
    /\ jsf_n = 0
    /\ jsf_sd = <<>>
    /\ jsf_seeded = FALSE

\* A generator of one of the instantiations, constructed with a seed.
InitJsf ==
    /\ jsf_par \in JsfFamilies
    /\ jsf_sd \in JsfSeeds(jsf_par.W)
    /\ jsf = jsf_ctor(jsf_sd, jsf_par)
    /\ jsf_ret = <<>>
    /\ jsf_n = 0
    /\ jsf_seeded = FALSE
    /\ McgIdle
    /\ ViewIdle

\* jsf.seed ( v )
JsfSeed ==
    /\ \E v \in JsfSeeds(jsf_par.W) :
           /\ jsf' = jsf_seed(jsf, v, jsf_par)
           /\ jsf_sd' = v
    /\ jsf_ret' = <<>>
    /\ jsf_n' = 0
    /\ jsf_seeded' = TRUE
    /\ UNCHANGED <<jsf_par, mcgvars, viewvars>>

\* jsf.advance ( ), called by a user of the class
JsfAdvance ==
    /\ jsf_n < MaxJsfCalls
    /\ jsf' = advance(jsf, jsf_par)
    /\ jsf_n' = jsf_n + 1
    /\ UNCHANGED <<jsf_par, jsf_ret, jsf_sd, jsf_seeded, mcgvars, viewvars>>

\* rtype operator( ) ( ): advance ( ); return rtype ( d_ );  (rtype is itype in
\* every instantiation of the source)
JsfCall ==
    /\ jsf_n < MaxJsfCalls
    /\ \E st \in {advance(jsf, jsf_par)} :
           /\ jsf' = st
           /\ jsf_ret' = st.d
    /\ jsf_n' = jsf_n + 1
    /\ UNCHANGED <<jsf_par, jsf_sd, jsf_seeded, mcgvars, viewvars>>

NextJsf ==
    \/ JsfSeed
    \/ JsfAdvance
    \/ JsfCall

SpecJsf == InitJsf /\ [][NextJsf]_vars

---------------------------------------------------------------------------
(* Limbs, storage and static_mpz_t. *)

LimbBase == Pow2(LimbBits)
Limb == 0..(LimbBase - 1)

\* A pointer into a static_mpz_storage_t: the array and the index of the limb
\* pointed to.  The arrays live in a memory: array name -> sequence of limbs.
NULL == [buf |-> "nullptr", off |-> 0]
Ptr(b, o) == [buf |-> b, off |-> o]
PtrAdd(ptr, n) == [ptr EXCEPT !.off = @ + n]

\* ptr[i], and the n limbs ptr[0], .., ptr[n - 1].
LimbAt(mem, ptr, i) == mem[ptr.buf][ptr.off + i + 1]
LimbsAt(mem, ptr, n) == [i \in 1..n |-> mem[ptr.buf][ptr.off + i]]

\* ptr[i] = v for the limbs v of the sequence vs, i = 0 .. Len(vs) - 1.
StoreAt(mem, ptr, vs) ==
    [mem EXCEPT ![ptr.buf] =
        [k \in 1..Len(@) |->
            IF k > ptr.off /\ k <= ptr.off + Len(vs) THEN vs[k - ptr.off] ELSE @[k]]]

\* static_mpz_t ( static_mpz_storage_t<S> & array_ ): _mp_alloc ( S ),
\* _mp_d ( array_.data ( ) ); _mp_size is not initialised and holds sz.
static_mpz_t(array, cap, sz) == [mp_alloc |-> cap, mp_size |-> sz, mp_d |-> Ptr(array, 0)]

\* The words a word generator delivers to one randomize call of n limbs: the
\* generator seeded with (s0, t) delivers s0, s0 + t, s0 + 2t, .. modulo the
\* limb base.  (The calls of std::generate under par_unseq race on the
\* generator; whatever words result are words of this kind.)
RandomWords(n) ==
    { [i \in 1..n |-> (s0 + (i - 1) * t) % LimbBase] : s0 \in Limb, t \in Limb }

\* The asserts of randomize, and the size it sets.
randomize_asserts(v, size) == v.mp_d # NULL /\ size <= v.mp_alloc
randomize_size(v, size) == IF size # 0 THEN size ELSE v.mp_alloc

\* A mutant of randomize: every limb of the capacity is filled.
randomize_full(mem, v, size, w) ==
    [view |-> [v EXCEPT !.mp_size = randomize_size(v, size)],
     mem  |-> StoreAt(mem, v.mp_d, SubSeq(w, 1, v.mp_alloc))]

\* void randomize ( Generator & gen_, const int size_ ): the view and the memory
\* after it, the generator delivering the words w.
randomize(mem, v, size, w) ==
    [view |-> [v EXCEPT !.mp_size = randomize_size(v, size)],
     mem  |-> StoreAt(mem, v.mp_d, SubSeq(w, 1, randomize_size(v, size)))]

\* A mutant of make_odd: the bit is cleared, as make_even does.
make_odd_clears(mem, v) ==
    StoreAt(mem, v.mp_d, << LimbAt(mem, v.mp_d, 0) - (LimbAt(mem, v.mp_d, 0) % 2) >>)

\* void make_odd ( ): the lowest byte of the limb at _mp_d (the limb's least
\* significant byte: the target is little-endian) gets bit 0 set.
make_odd(mem, v) ==
    StoreAt(mem, v.mp_d, << LimbAt(mem, v.mp_d, 0) + (1 - (LimbAt(mem, v.mp_d, 0) % 2)) >>)

\* A mutant of make_even: the whole limb is cleared.
make_even_zeroes(mem, v) == StoreAt(mem, v.mp_d, << 0 >>)

\* void make_even ( )
make_even(mem, v) ==
    StoreAt(mem, v.mp_d, << LimbAt(mem, v.mp_d, 0) - (LimbAt(mem, v.mp_d, 0) % 2) >>)

make_odd_asserts(v) == v.mp_size # 0

---------------------------------------------------------------------------
(* mpn_mul and mpn_mul_n of GMP: the product of two limb sequences, computed  *)
(* a row at a time (one limb of the second operand times the first operand,   *)
(* added into the result).                                                    *)

\* u times the limb m, plus carry, from limb i of u on: Len(u) - i + 2 limbs.
RECURSIVE MulRowFrom(_, _, _, _)
MulRowFrom(u, m, i, carry) ==
    IF i > Len(u) THEN <<carry>>
    ELSE CHOOSE z \in { <<t % LimbBase>> \o MulRowFrom(u, m, i + 1, t \div LimbBase) :
                        t \in {u[i] * m + carry} } : TRUE

\* r with the limbs of row added in at limb position j (0-based), from limb i of
\* the row on; the carry out of the last limb of r is dropped.
RECURSIVE AddRowFrom(_, _, _, _, _)
AddRowFrom(r, row, j, i, carry) ==
    IF j + i > Len(r) THEN r
    ELSE CHOOSE z \in
           { AddRowFrom([r EXCEPT ![j + i] = t % LimbBase], row, j, i + 1, t \div LimbBase) :
             t \in {r[j + i] + (IF i <= Len(row) THEN row[i] ELSE 0) + carry} } : TRUE

\* The rows j .. Len(v) of u * v added into r.
RECURSIVE MulRows(_, _, _, _)
MulRows(r, u, v, j) ==
    IF j > Len(v) THEN r
    ELSE CHOOSE z \in
           { MulRows(r2, u, v, j + 1) :
             r2 \in {AddRowFrom(r, MulRowFrom(u, v[j], 1, 0), j - 1, 1, 0)} } : TRUE

\* The Len(u) + Len(v) limbs of the product u * v.
Product(u, v) == MulRows([i \in 1..(Len(u) + Len(v)) |-> 0], u, v, 1)

\* A mutant of mpn_mul: the low limbs of the product are also stored over the
\* second operand.
mpn_mul_clobbers(mem, rp, s1p, s1n, s2p, s2n) ==
    StoreAt(StoreAt(mem, rp, Product(LimbsAt(mem, s1p, s1n), LimbsAt(mem, s2p, s2n))),
            s2p, SubSeq(Product(LimbsAt(mem, s1p, s1n), LimbsAt(mem, s2p, s2n)), 1, s2n))

\* mpn_mul ( rp, s1p, s1n, s2p, s2n ): rp[0 .. s1n + s2n) = {s1p, s1n} * {s2p, s2n}
mpn_mul(mem, rp, s1p, s1n, s2p, s2n) ==
    StoreAt(mem, rp, Product(LimbsAt(mem, s1p, s1n), LimbsAt(mem, s2p, s2n)))

\* mpn_mul_n ( rp, s1p, s2p, n ): rp[0 .. 2n) = {s1p, n} * {s2p, n}
mpn_mul_n(mem, rp, s1p, s2p, n) == mpn_mul(mem, rp, s1p, n, s2p, n)

\* A mutant of copy_n: the limbs are copied last to first (std::copy_backward).
RECURSIVE copy_n_backward(_, _, _, _)
copy_n_backward(mem, first, n, result) ==
    IF n = 0 THEN mem
    ELSE CHOOSE z \in
           { copy_n_backward(m2, first, n - 1, result) :
             m2 \in {StoreAt(mem, PtrAdd(result, n - 1), <<LimbAt(mem, first, n - 1)>>)} } : TRUE

\* std::copy_n ( first, n, result ): *result++ = *first++, n times.
RECURSIVE copy_n(_, _, _, _)
copy_n(mem, first, n, result) ==
    IF n = 0 THEN mem
    ELSE CHOOSE z \in
           { copy_n(m2, PtrAdd(first, 1), n - 1, PtrAdd(result, 1)) :
             m2 \in {StoreAt(mem, result, <<LimbAt(mem, first, 0)>>)} } : TRUE

---------------------------------------------------------------------------
(* GMPRng<S> and GMPRng2<S> *)

\* static_assert ( S % 2 == 0 ): the instantiations that compile, up to the bound
\* (S = 0 has no limb for make_odd to write and is left out).
Sizes == { 2 * h : h \in 1..MaxHalfS }

\* What the limbs of the arrays hold before anything is stored in them (the
\* arrays are not initialised): every limb 0, or every limb all ones.
Indeterminate == {0, LimbBase - 1}

\* The members of a generator that have just been default-initialised.
FreshStorage(n, fill) ==
    [ _state_storage_0    |-> [i \in 1..(2 * n) |-> fill],
      _state_storage_1    |-> [i \in 1..(2 * n) |-> fill],
      _multiplier_storage |-> [i \in 1..n |-> fill] ]

\* GMPRng ( ): the object after the constructor, the storage holding fill
\* before it and the word generator delivering ws to _state.randomize and wm
\* to multiplier.randomize.  (_state._mp_size, which the member initialiser
\* leaves unset, is first written by randomize, as is multiplier's.)
GMPRng_ctor(n, fill, ws, wm) ==
    LET mem0   == FreshStorage(n, fill)
        state0 == static_mpz_t("_state_storage_0", 2 * n, 0)
        dest0  == Ptr("_state_storage_1", 0)
        r1     == randomize(mem0, state0, n, ws)
        mem2   == make_odd(r1.mem, r1.view)
        mult0  == static_mpz_t("_multiplier_storage", n, 0)
        r3     == randomize(mem2, mult0, 0, wm)
        mem4   == make_odd(r3.mem, r3.view)
    IN  [mem |-> mem4, _state |-> r1.view, _destination |-> dest0]

\* A mutant of GMPRng::operator(): no swap, the window of the product is
\* copied from the destination array to the front of the state's array.
GMPRng_call_no_swap(g, n) ==
    LET mem1 == mpn_mul_n(g.mem, g._destination, g._state.mp_d,
                          Ptr("_multiplier_storage", 0), n)
        mem3 == StoreAt(mem1, g._state.mp_d, LimbsAt(mem1, PtrAdd(g._destination, n - 1), n))
    IN  [mem |-> mem3, _state |-> g._state, _destination |-> g._destination]

\* static_mpz_t & operator( ) ( ): the object after the call.
GMPRng_call(g, n) ==
    LET mem1 == mpn_mul_n(g.mem, g._destination, g._state.mp_d,
                          Ptr("_multiplier_storage", 0), n)
        \* std::swap ( _destination, _state._mp_d )
        dest2 == g._state.mp_d
        d2    == g._destination
        mem3  == copy_n(mem1, PtrAdd(d2, n - 1), n, d2)
    IN  [mem |-> mem3, _state |-> [g._state EXCEPT !.mp_d = d2], _destination |-> dest2]

\* The limbs of the value a static_mpz_t stands for: _mp_d[0 .. _mp_size).
ValueOf(mem, v) == LimbsAt(mem, v.mp_d, v.mp_size)

\* GMPRng2 ( )
GMPRng2_ctor(n, fill, ws, wm) ==
    LET mem0   == FreshStorage(n, fill)
        state0 == static_mpz_t("_state_storage_0", 2 * n, 0)
        dest0  == Ptr("_state_storage_1", n - 1)
        \* _state._mp_d += ( S - 1 )
        state1 == [state0 EXCEPT !.mp_d = PtrAdd(@, n - 1)]
        r1     == randomize(mem0, state1, n, ws)
        mem2   == make_odd(r1.mem, r1.view)
        mult0  == static_mpz_t("_multiplier_storage", n, 0)
        r3     == randomize(mem2, mult0, 0, wm)
        mem4   == make_odd(r3.mem, r3.view)
    IN  [mem |-> mem4, _state |-> r1.view, _destination |-> dest0, _limb |-> 0]

\* constexpr int used = 2 in GMPRng2::advance.
used == 2

\* The set of the limbs ptr[0 .. n): pairs of an array and an index from 0.
Range(ptr, n) == { <<ptr.buf, ptr.off + k>> : k \in 0..(n - 1) }

\* A mutant of the destination of the multiply: _destination itself.
advance_rp_unadjusted(g, n) == g._destination

\* _destination - ( S - 1 ) + ( S - used ): where advance() has mpn_mul store
\* the product.
advance_rp(g, n) == PtrAdd(g._destination, (n - used) - (n - 1))

\* The limbs the mpn_mul of advance() writes (the S + used limbs of the
\* product) and reads (the S limbs of the state, used limbs of the multiplier).
advance_writes(g, n) == Range(advance_rp(g, n), n + used)
advance_reads(g, n) == Range(g._state.mp_d, n) \cup Range(Ptr("_multiplier_storage", 0), used)

\* The limbs operator() reads and writes when called on g: _state._mp_d[ _limb ],
\* or what advance() accesses and then _state._mp_d[ 0 ] of the new state.
call_accesses(g, n) ==
    IF g._limb # n
    THEN Range(PtrAdd(g._state.mp_d, g._limb), 1)
    ELSE advance_writes(g, n) \cup advance_reads(g, n) \cup Range(g._destination, 1)

\* A mutant of GMPRng2::advance: _limb = 0 after the refresh.
GMPRng2_advance_limb0(g, n) ==
    LET mem1 == mpn_mul(g.mem, advance_rp(g, n),
                        g._state.mp_d, n, Ptr("_multiplier_storage", 0), used)
    IN  [mem |-> mem1, _state |-> [g._state EXCEPT !.mp_d = g._destination],
         _destination |-> g._state.mp_d, _limb |-> 0]

\* inline void advance ( ): the multiply, the swap of _destination and
\* _state._mp_d, _limb = 1.
GMPRng2_advance(g, n) ==
    LET mem1 == mpn_mul(g.mem, advance_rp(g, n),
                        g._state.mp_d, n, Ptr("_multiplier_storage", 0), used)
    IN  [mem |-> mem1, _state |-> [g._state EXCEPT !.mp_d = g._destination],
         _destination |-> g._state.mp_d, _limb |-> 1]

\* result_type operator( ) ( ): the object after the call, and the word returned.
GMPRng2_call(g, n) ==
    IF g._limb # n
    THEN [obj |-> [g EXCEPT !._limb = @ + 1], ret |-> LimbAt(g.mem, g._state.mp_d, g._limb)]
    ELSE LET g2 == GMPRng2_advance(g, n)
         IN  [obj |-> g2, ret |-> LimbAt(g2.mem, g2._state.mp_d, 0)]

\* A GMPRng<S> has been constructed.
InitRng ==
    /\ S \in Sizes
    /\ \E fill \in Indeterminate : \E ws \in RandomWords(S) : \E wm \in RandomWords(S) :
           rng = GMPRng_ctor(S, fill, ws, wm)
    /\ out = <<>>
    /\ rng2 = <<>>
    /\ out2 = <<>>
    /\ snap2 = <<>>
    /\ JsfIdle
    /\ ViewIdle

\* A GMPRng2<S> has been constructed.
InitRng2 ==
    /\ S \in Sizes
    /\ \E fill \in Indeterminate : \E ws \in RandomWords(S) : \E wm \in RandomWords(S) :
           rng2 = GMPRng2_ctor(S, fill, ws, wm)
    /\ out2 = <<>>
    /\ snap2 = << ValueOf(rng2.mem, rng2._state) >>
    /\ rng = <<>>
    /\ out = <<>>
    /\ JsfIdle
    /\ ViewIdle

\* A GMPRng<S> and a GMPRng2<S> have been constructed, the word generator
\* delivering the same words to both (the same seed).
InitPair ==
    /\ S \in Sizes
    /\ \E fill \in Indeterminate : \E ws \in RandomWords(S) : \E wm \in RandomWords(S) :
           /\ rng = GMPRng_ctor(S, fill, ws, wm)
           /\ rng2 = GMPRng2_ctor(S, fill, ws, wm)
    /\ out = <<>>
    /\ out2 = <<>>
    /\ snap2 = << ValueOf(rng2.mem, rng2._state) >>
    /\ JsfIdle
    /\ ViewIdle

\* rng ( )
RngCall ==
    /\ rng # <<>>
    /\ Len(out) < MaxCalls
    /\ \E g \in {GMPRng_call(rng, S)} :
           /\ rng' = g
           /\ out' = Append(out, ValueOf(g.mem, g._state))
    /\ UNCHANGED <<S, rng2, out2, snap2, jsfvars, viewvars>>

\* rng2 ( ): the word returned is recorded, and the new state if _state._mp_d
\* has moved to the other array.
Rng2Call ==
    /\ rng2 # <<>>
    /\ Len(out2) < (MaxRefresh + 1) * S
    /\ \E c \in {GMPRng2_call(rng2, S)} :
           /\ rng2' = c.obj
           /\ out2' = Append(out2, c.ret)
           /\ snap2' = IF c.obj._state.mp_d # rng2._state.mp_d
                       THEN Append(snap2, ValueOf(c.obj.mem, c.obj._state))
                       ELSE snap2
    /\ UNCHANGED <<S, rng, out, jsfvars, viewvars>>

\* rng2 ( ) while limbs of the state are left to return
Rng2Stream == rng2 # <<>> /\ rng2._limb # S /\ Rng2Call

\* rng2 ( ) when every limb of the state has been returned
Rng2Refresh == rng2 # <<>> /\ rng2._limb = S /\ Rng2Call

NextMcg ==
    \/ RngCall
    \/ Rng2Stream
    \/ Rng2Refresh

\* One generator, a GMPRng<S> or a GMPRng2<S>, is constructed and called.
SpecMcg == (InitRng \/ InitRng2) /\ [][NextMcg]_vars

\* A GMPRng<S> and a GMPRng2<S> with the same seed are constructed and called.
SpecPair == InitPair /\ [][NextMcg]_vars

---------------------------------------------------------------------------
(* The operations of static_mpz_t, on views over two arrays. *)

\* A view slot that holds no view yet.
NoView == <<>>

\* The view variables: "d" over array_d, "s" over array_s, and "v" for a view
\* without storage or a view that low_view or high_view has returned.
ViewSlots == {"d", "s", "v"}
ArrayOf(i) == IF i = "d" THEN "array_d" ELSE "array_s"

\* static_mpz_storage_t<2 * n> array_d; static_mpz_storage_t<n> array_s;
ViewStorage(n, fill) ==
    [ array_d |-> [i \in 1..(2 * n) |-> fill],
      array_s |-> [i \in 1..n |-> fill] ]

\* What _mp_size, which the array constructor does not initialise, may hold
\* in a view of capacity cap: a value within the capacity, or one beyond it.
IndeterminateSize(cap) == {0, cap + 1}

\* static_mpz_t ( int a_ = 0, int s_ = 0, mp_limb_t * m_ = nullptr )
static_mpz_t_3(a, s, m) == [mp_alloc |-> a, mp_size |-> s, mp_d |-> m]

\* int capacity ( ), int size ( )
capacity(v) == v.mp_alloc
size(v) == v.mp_size

\* The words the word generator delivers to a randomize call on a view: two of
\* the streams of RandomWords, one beginning with an even word and one with an
\* odd word.
ViewWords(n) ==
    { [i \in 1..n |-> (st[1] + (i - 1) * st[2]) % LimbBase] :
          st \in { <<0, 1>>, <<LimbBase - 1, LimbBase - 1>> } }

\* The limbs ptr[0 .. n) lie within the array ptr points into.
InArray(mem, ptr, n) ==
    /\ ptr # NULL
    /\ ptr.off >= 0
    /\ ptr.off + n <= Len(mem[ptr.buf])

\* void resize ( const int size_ ): its asserts, and the view after it.
resize_asserts(v, sz) == v.mp_d # NULL /\ sz <= v.mp_alloc
resize(v, sz) == [v EXCEPT !.mp_size = sz]

\* std::memcpy ( dst, src, n limbs ), the two ranges disjoint
memcpy(mem, dst, src, n) == IF n = 0 THEN mem ELSE StoreAt(mem, dst, LimbsAt(mem, src, n))

\* void shift_high ( ): its asserts, and the view and the memory after it.
shift_high_asserts(v) == v.mp_alloc = v.mp_size /\ v.mp_alloc % 2 = 0
shift_high(mem, v) ==
    [view |-> [v EXCEPT !.mp_size = v.mp_size \div 2],
     mem  |-> memcpy(mem, v.mp_d, PtrAdd(v.mp_d, v.mp_size \div 2), v.mp_size \div 2)]

\* static_mpz_t low_view ( ), static_mpz_t high_view ( ); and a mutant of
\* high_view, which does not advance the pointer.
low_view(v) == static_mpz_t_3(-1, v.mp_size \div 2, v.mp_d)
high_view_at_base(v) == static_mpz_t_3(-1, v.mp_size \div 2, v.mp_d)

high_view(v) ==
    static_mpz_t_3(-1, v.mp_size \div 2,
                   IF v.mp_d = NULL THEN NULL ELSE PtrAdd(v.mp_d, v.mp_size \div 2))

\* void mul ( static_mpz_t & d_, static_mpz_t & s1_, static_mpz_t & s2_ ): its
\* asserts, and the view d_ and the memory after it.
mul_asserts(d, s1, s2) == s1.mp_size = s2.mp_size /\ d.mp_alloc = 2 * s1.mp_size
mul(mem, d, s1, s2) ==
    [view |-> [d EXCEPT !.mp_size = d.mp_alloc],
     mem  |-> mpn_mul_n(mem, d.mp_d, s1.mp_d, s2.mp_d, s1.mp_size)]

\* The arrays have been defined; no view has been constructed yet.
InitView ==
    /\ \E n \in 1..MaxViewS : \E fill \in Indeterminate : bufs = ViewStorage(n, fill)
    /\ views = [i \in ViewSlots |-> NoView]
    /\ aborted = FALSE
    /\ view_ops = 0
    /\ JsfIdle
    /\ McgIdle

\* The sizes randomize and resize are called with on views[i]: from 0 to one
\* above its capacity (0 alone for a view of capacity -1, which every size
\* from 0 exceeds).
SizesFor(i) ==
    IF views[i] = NoView THEN {}
    ELSE IF capacity(views[i]) < 0 THEN {0}
    ELSE 0..(capacity(views[i]) + 1)

\* One more operation on the views, of a program that has not been aborted.
ViewStep ==
    /\ ~aborted
    /\ view_ops < MaxViewOps
    /\ view_ops' = view_ops + 1

\* An assert has failed: the program is aborted, nothing else has changed.
Abort == aborted' = TRUE /\ UNCHANGED <<views, bufs>>

\* static_mpz_t d ( array_d ), static_mpz_t s ( array_s )
Construct(i, sz) ==
    /\ ViewStep
    /\ views[i] = NoView
    /\ views' = [views EXCEPT ![i] = static_mpz_t(ArrayOf(i), Len(bufs[ArrayOf(i)]), sz)]
    /\ UNCHANGED <<bufs, aborted, jsfvars, mcgvars>>

ViewConstruct ==
    \E i \in {"d", "s"} : \E sz \in IndeterminateSize(Len(bufs[ArrayOf(i)])) : Construct(i, sz)

\* static_mpz_t v;
ViewDefault ==
    /\ ViewStep
    /\ views["v"] = NoView
    /\ views' = [views EXCEPT !["v"] = static_mpz_t_3(0, 0, NULL)]
    /\ UNCHANGED <<bufs, aborted, jsfvars, mcgvars>>

\* views[i].randomize ( gen, sz ), gen delivering the words w
Randomize(i, sz, w) ==
    /\ ViewStep
    /\ views[i] # NoView
    /\ IF randomize_asserts(views[i], sz)
       THEN /\ InArray(bufs, views[i].mp_d, randomize_size(views[i], sz))
            /\ views' = [views EXCEPT ![i] = randomize(bufs, views[i], sz, w).view]
            /\ bufs' = randomize(bufs, views[i], sz, w).mem
            /\ UNCHANGED aborted
       ELSE Abort
    /\ UNCHANGED <<jsfvars, mcgvars>>

ViewRandomize ==
    \E i \in ViewSlots : \E sz \in SizesFor(i) :
        \E w \in ViewWords(Len(bufs.array_d)) : Randomize(i, sz, w)

\* views[i].make_odd ( )
MakeOdd(i) ==
    /\ ViewStep
    /\ views[i] # NoView
    /\ IF make_odd_asserts(views[i])
       THEN /\ InArray(bufs, views[i].mp_d, 1)
            /\ bufs' = make_odd(bufs, views[i])
            /\ UNCHANGED <<views, aborted>>
       ELSE Abort
    /\ UNCHANGED <<jsfvars, mcgvars>>

ViewMakeOdd == \E i \in ViewSlots : MakeOdd(i)

\* views[i].make_even ( )
MakeEven(i) ==
    /\ ViewStep
    /\ views[i] # NoView
    /\ IF make_odd_asserts(views[i])
       THEN /\ InArray(bufs, views[i].mp_d, 1)
            /\ bufs' = make_even(bufs, views[i])
            /\ UNCHANGED <<views, aborted>>
       ELSE Abort
    /\ UNCHANGED <<jsfvars, mcgvars>>

ViewMakeEven == \E i \in ViewSlots : MakeEven(i)

\* views[i].resize ( sz )
Resize(i, sz) ==
    /\ ViewStep
    /\ views[i] # NoView
    /\ IF resize_asserts(views[i], sz)
       THEN /\ views' = [views EXCEPT ![i] = resize(views[i], sz)]
            /\ UNCHANGED <<bufs, aborted>>
       ELSE Abort
    /\ UNCHANGED <<jsfvars, mcgvars>>

ViewResize ==
    \E i \in ViewSlots : \E sz \in SizesFor(i) : Resize(i, sz)

\* views[i].shift_high ( )
ShiftHigh(i) ==
    /\ ViewStep
    /\ views[i] # NoView
    /\ IF shift_high_asserts(views[i])
       THEN /\ views[i].mp_size = 0 \/ InArray(bufs, views[i].mp_d, views[i].mp_size)
            /\ views' = [views EXCEPT ![i] = shift_high(bufs, views[i]).view]
            /\ bufs' = shift_high(bufs, views[i]).mem
            /\ UNCHANGED aborted
       ELSE Abort
    /\ UNCHANGED <<jsfvars, mcgvars>>

ViewShiftHigh == \E i \in ViewSlots : ShiftHigh(i)

\* v = views[i].low_view ( )
LowView(i) ==
    /\ ViewStep
    /\ views[i] # NoView
    /\ views' = [views EXCEPT !["v"] = low_view(views[i])]
    /\ UNCHANGED <<bufs, aborted, jsfvars, mcgvars>>

ViewLowView == \E i \in ViewSlots : LowView(i)

\* v = views[i].high_view ( )
HighView(i) ==
    /\ ViewStep
    /\ views[i] # NoView
    /\ views' = [views EXCEPT !["v"] = high_view(views[i])]
    /\ UNCHANGED <<bufs, aborted, jsfvars, mcgvars>>

ViewHighView == \E i \in ViewSlots : HighView(i)

\* mul ( views[d], views[s1], views[s2] ), the operands outside d's array as
\* mpn_mul_n requires
Mul(d, s1, s2) ==
    /\ ViewStep
    /\ views[d] # NoView /\ views[s1] # NoView /\ views[s2] # NoView
    /\ IF mul_asserts(views[d], views[s1], views[s2])
       THEN /\ views[s1].mp_size >= 1
            /\ InArray(bufs, views[d].mp_d, 2 * views[s1].mp_size)
            /\ InArray(bufs, views[s1].mp_d, views[s1].mp_size)
            /\ InArray(bufs, views[s2].mp_d, views[s2].mp_size)
            /\ views[s1].mp_d.buf # views[d].mp_d.buf
            /\ views[s2].mp_d.buf # views[d].mp_d.buf
            /\ views' = [views EXCEPT ![d] = mul(bufs, views[d], views[s1], views[s2]).view]
            /\ bufs' = mul(bufs, views[d], views[s1], views[s2]).mem
            /\ UNCHANGED aborted
       ELSE Abort
    /\ UNCHANGED <<jsfvars, mcgvars>>

ViewMul == \E d \in ViewSlots : \E s1 \in ViewSlots : \E s2 \in ViewSlots : Mul(d, s1, s2)

NextView ==
    \/ ViewConstruct
    \/ ViewDefault
    \/ ViewRandomize
    \/ ViewMakeOdd
    \/ ViewMakeEven
    \/ ViewResize
    \/ ViewShiftHigh
    \/ ViewLowView
    \/ ViewHighView
    \/ ViewMul

\* Views are constructed over the arrays and operated on.
SpecView == InitView /\ [][NextView]_vars

---------------------------------------------------------------------------
(* The claims about jsf. *)

\* rotl(x, k): bit i of the result is bit (i - k) mod W of x.
rotl(x, k) == [i \in 1..Len(x) |-> x[((i - 1 - k) % Len(x)) + 1]]

\* The carry into bit i of x + y: some lower position generates a carry (both
\* bits set) and every position between passes it on.
CarryInto(x, y, i) ==
    \E j \in 1..(i - 1) :
        /\ x[j] + y[j] = 2
        /\ \A k \in (j + 1)..(i - 1) : x[k] + y[k] >= 1

\* (x + y) mod 2^W and x xor y, bit by bit.
ModSum(x, y) ==
    [i \in 1..Len(x) |-> (x[i] + y[i] + (IF CarryInto(x, y, i) THEN 1 ELSE 0)) % 2]
XorOf(x, y) == [i \in 1..Len(x) |-> (x[i] + y[i]) % 2]

\* (a', b', c', d') = t is what the claimed equations give for (a, b, c, d) = s.
\* With e = (a - rotl(b, p)) mod 2^W, that is e + rotl(b, p) = a, the equations
\* c' = d + e and d' = e + a' say c' + rotl(b, p) = d + a and
\* d' + rotl(b, p) = a + a' (all modulo 2^W).
AdvanceRel(s, t, par) ==
    /\ t.a = XorOf(s.b, rotl(s.c, par.q))
    /\ t.b = ModSum(s.c, IF par.r # 0 THEN rotl(s.d, par.r) ELSE s.d)
    /\ ModSum(t.c, rotl(s.b, par.p)) = ModSum(s.d, s.a)
    /\ ModSum(t.d, rotl(s.b, par.p)) = ModSum(s.a, t.a)

\* C5: one advance() takes (a, b, c, d) to (a', b', c', d') with
\* e = (a - rotl(b,p)) mod 2^W, a' = b xor rotl(c,q),
\* b' = (c + (rotl(d,r) if r != 0 else d)) mod 2^W, c' = (d + e) mod 2^W and
\* d' = (e + a') mod 2^W, in every instantiation; operator() performs exactly
\* one advance and returns the new d.
C5_JsfAdvance ==
    [][ /\ JsfAdvance => AdvanceRel(jsf, jsf', jsf_par)
        /\ JsfCall => AdvanceRel(jsf, jsf', jsf_par) /\ jsf_ret' = jsf'.d ]_vars

\* A three-rotation 64-bit generator whose operator() has returned a word
\* after an earlier advance.
C5_Witness ==
    /\ jsf_par = jsf64ra
    /\ jsf_n >= 2
    /\ jsf_ret = jsf.d

\* n applications of advance() to st.
RECURSIVE Advanced(_, _, _)
Advanced(st, par, n) ==
    IF n = 0 THEN st
    ELSE Advanced(CHOOSE x \in {advance(u, par) : u \in {st}} : TRUE, par, n - 1)

\* C6: the state after seed(v) is 20 applications of advance() to
\* (a = 0xf1ea5eed truncated to the word width, b = c = d = v), whatever the
\* state before, and is the state of a generator constructed with seed v.
C6_JsfSeed ==
    jsf_n = 0 =>
        /\ jsf = Advanced([a |-> FromHex(HexA, jsf_par.W),
                           b |-> jsf_sd, c |-> jsf_sd, d |-> jsf_sd], jsf_par, 20)
        /\ jsf = jsf_ctor(jsf_sd, jsf_par)

\* seed(0) has just been called on a 32-bit generator.
C6_Witness ==
    /\ jsf_seeded
    /\ jsf_n = 0
    /\ jsf_par = jsf32rq
    /\ jsf_sd = FromHex(<<0>>, 32)

---------------------------------------------------------------------------
(* The claims about GMPRng and GMPRng2. *)

\* Limb k (0-based) of the product of the limb sequences x and y, column by
\* column: the sum of the x[i] * y[k - i], plus the carry of the column below.
RECURSIVE ColumnFrom(_, _, _, _)
ColumnFrom(x, y, k, i) ==
    IF i >= Len(x) THEN 0
    ELSE (IF k - i >= 0 /\ k - i < Len(y) THEN x[i + 1] * y[k - i + 1] ELSE 0)
         + ColumnFrom(x, y, k, i + 1)

RECURSIVE ColumnTotal(_, _, _)
ColumnTotal(x, y, k) ==
    IF k < 0 THEN 0
    ELSE ColumnFrom(x, y, k, 0) + (ColumnTotal(x, y, k - 1) \div LimbBase)

ProductLimb(x, y, k) == ColumnTotal(x, y, k) % LimbBase

\* Limbs [lo, lo + n) of the product of x and y.
ProductWindow(x, y, lo, n) == [i \in 1..n |-> ProductLimb(x, y, lo + i - 1)]

Multiplier(g) == g.mem._multiplier_storage
Zeros(n) == [i \in 1..n |-> 0]

\* C1: one call of GMPRng::operator() returns, and leaves as the new S-limb
\* state, limbs [S-1, 2S-1) of the 2S-limb product of the state and the
\* multiplier; the overlapping copy to the front of the array corrupts none.
C1_Windowing ==
    [][ RngCall =>
          /\ ValueOf(rng'.mem, rng'._state)
               = ProductWindow(ValueOf(rng.mem, rng._state), Multiplier(rng), S - 1, S)
          /\ out'[Len(out')] = ValueOf(rng'.mem, rng'._state)
          /\ rng'._state.mp_size = S ]_vars

\* A GMPRng<4> has been called twice and its state is not zero.
C1_Witness ==
    /\ S = 4
    /\ Len(out) = 2
    /\ out[2] # Zeros(4)
    /\ out[1] # out[2]

\* C3: the n-th call of GMPRng2::operator() returns limb (n-1) mod S of the
\* state in effect after floor((n-1)/S) refreshes.
C3_StreamOrder ==
    rng2 # <<>> =>
        \A n \in 1..Len(out2) :
            /\ Len(snap2) >= ((n - 1) \div S) + 1
            /\ out2[n] = snap2[((n - 1) \div S) + 1][((n - 1) % S) + 1]

\* A GMPRng2<4> has returned every limb of its initial state and of two
\* refreshed states, and these states differ.
C3_Witness ==
    /\ S = 4
    /\ Len(out2) = 12
    /\ Len(snap2) = 3
    /\ snap2[1] # snap2[2]
    /\ snap2[2] # snap2[3]

\* C4: _limb is 0 after construction and stays in 0..S; a call refreshes
\* (multiplies into the other array and swaps the two pointers) if and only if
\* it starts with _limb = S, and then ends with _limb = 1; every other call
\* adds 1 to _limb and leaves the state, both arrays and the multiplier as they
\* were.  So after n >= 1 calls there have been floor((n-1)/S) refreshes.
C4_Cursor ==
    /\ [](rng2 # <<>> =>
            /\ rng2._limb \in 0..S
            /\ (Len(out2) = 0 => rng2._limb = 0)
            /\ Len(snap2) - 1 = (IF Len(out2) = 0 THEN 0 ELSE (Len(out2) - 1) \div S))
    /\ [][ Rng2Call =>
            IF rng2._limb = S
            THEN /\ rng2'._limb = 1
                 /\ rng2'._state.mp_d = rng2._destination
                 /\ rng2'._destination = rng2._state.mp_d
                 /\ Len(snap2') = Len(snap2) + 1
            ELSE /\ rng2'._limb = rng2._limb + 1
                 /\ rng2'.mem = rng2.mem
                 /\ rng2'._state = rng2._state
                 /\ rng2'._destination = rng2._destination
                 /\ snap2' = snap2 ]_vars

\* A GMPRng2 has just refreshed for the second time.
C4_Witness ==
    /\ rng2 # <<>>
    /\ rng2._limb = 1
    /\ Len(snap2) = 3
    /\ Len(out2) = 2 * S + 1

\* C2: for the same S, initial state and multiplier, the S words GMPRng2
\* returns in its k-th refresh cycle (calls kS+1 .. (k+1)S) are limbs 0..S-1 of
\* the k-th value GMPRng returns, for every k >= 1.
C2_StreamingEquivalence ==
    (rng # <<>> /\ rng2 # <<>>) =>
        \A k \in 1..Len(out) :
            (k + 1) * S <= Len(out2) => SubSeq(out2, k * S + 1, (k + 1) * S) = out[k]

\* The same for S = 2 only, where the two limbs of the multiplier that
\* GMPRng2::advance uses are all of it.
C2_EquivalenceS2 ==
    S = 2 => C2_StreamingEquivalence

\* C7: in every state reached by constructing a generator and calling it, the
\* multiplier's limbs are those written at construction (no step stores into
\* _multiplier_storage) and bit 0 of its lowest limb is 1.
C7_Multiplier ==
    /\ [](/\ rng # <<>> => Multiplier(rng)[1] % 2 = 1
          /\ rng2 # <<>> => Multiplier(rng2)[1] % 2 = 1)
    /\ [][ /\ rng # <<>> => Multiplier(rng') = Multiplier(rng)
           /\ rng2 # <<>> => Multiplier(rng2') = Multiplier(rng2) ]_vars

\* A GMPRng<4> with a multiplier of more than one limb has been called twice.
C7_Witness ==
    /\ S = 4
    /\ Len(out) = 2
    /\ Multiplier(rng)[1] = 3
    /\ Multiplier(rng)[4] # 0

\* C8: right after construction bit 0 of limb 0 of the S-limb state is 1, for
\* every outcome of the randomisation; the state of a GMPRng2 starts at limb
\* S-1 of its array, and its limb 0 is the word the first call returns.
C8_InitialParity ==
    /\ (rng # <<>> /\ Len(out) = 0) =>
          /\ rng._state.mp_size = S
          /\ LimbAt(rng.mem, rng._state.mp_d, 0) % 2 = 1
    /\ (rng2 # <<>> /\ Len(out2) = 0) =>
          /\ rng2._state.mp_size = S
          /\ rng2._state.mp_d = Ptr("_state_storage_0", S - 1)
          /\ rng2.mem._state_storage_0[S] % 2 = 1
    /\ (rng2 # <<>> /\ Len(out2) >= 1) =>
          /\ out2[1] % 2 = 1
          /\ out2[1] = snap2[1][1]

\* The first call of a GMPRng2<4> has returned the odd word 3.
C8_Witness ==
    /\ S = 4
    /\ rng2 # <<>>
    /\ Len(out2) = 1
    /\ out2[1] = 3

\* C9: from an odd initial state and an odd multiplier no sequence of
\* GMPRng::operator() calls reaches the all-zero S-limb state.
C9_NeverZero ==
    rng # <<>> => ValueOf(rng.mem, rng._state) # Zeros(S)

\* C10: every view reached by constructing views over buffers and applying
\* randomize, resize, shift_high, mul, low_view and high_view (the views that
\* low_view and high_view return included) has logical size <= capacity.
C10_SizeWithinCapacity ==
    \A i \in ViewSlots : views[i] # NoView => size(views[i]) <= capacity(views[i])

---------------------------------------------------------------------------
(* Claims about the operations of static_mpz_t. *)

\* resize ( sz ) on views[i] passes its asserts and has the effect claimed,
\* but for the direction of the change of the size: the size becomes sz, no
\* limb and no capacity changes; or it fails an assert and changes nothing.
ResizeEffect(i, sz) ==
    IF views[i].mp_d # NULL /\ sz <= capacity(views[i])
    THEN /\ ~aborted'
         /\ size(views'[i]) = sz
         /\ capacity(views'[i]) = capacity(views[i])
         /\ views'[i].mp_d = views[i].mp_d
         /\ \A j \in ViewSlots \ {i} : views'[j] = views[j]
         /\ bufs' = bufs
    ELSE aborted' /\ views' = views /\ bufs' = bufs

\* C11: every resize(size) that succeeds on a backed view leaves the logical
\* size at most what it was, sets it to size and changes no limb and no
\* capacity; with size above the capacity, or on a view without storage, it
\* fails an assert.
C11_ResizeTruncates ==
    [][ \A i \in ViewSlots : \A sz \in SizesFor(i) :
            Resize(i, sz) =>
                /\ ResizeEffect(i, sz)
                /\ ~aborted' => size(views'[i]) <= size(views[i]) ]_vars

\* What holds of resize: C11 without "the size does not grow".
C11_ResizeWithinCapacity ==
    [][ \A i \in ViewSlots : \A sz \in SizesFor(i) : Resize(i, sz) => ResizeEffect(i, sz) ]_vars

\* views[i] is a view of even logical size over limbs of an array.
Whole(i) ==
    /\ views[i] # NoView
    /\ views[i].mp_d # NULL
    /\ size(views[i]) >= 0
    /\ size(views[i]) % 2 = 0
    /\ InArray(bufs, views[i].mp_d, size(views[i]))

\* The indices, in its array, of the limbs a view covers.
Covered(v) == { v.mp_d.off + k : k \in 0..(size(v) - 1) }

\* low_view and high_view of v, of logical size 2h, cover its limbs [0, h) and
\* [h, 2h) in place, and their limbs in this order are the limbs of v.
Halves(v) ==
    LET h  == size(v) \div 2
        lo == low_view(v)
        hi == high_view(v)
    IN  /\ size(lo) = h /\ size(hi) = h
        /\ lo.mp_d.buf = v.mp_d.buf /\ hi.mp_d.buf = v.mp_d.buf
        /\ Covered(lo) = { v.mp_d.off + k : k \in 0..(h - 1) }
        /\ Covered(hi) = { v.mp_d.off + k : k \in h..(2 * h - 1) }
        /\ Covered(lo) \cap Covered(hi) = {}
        /\ \A k \in 1..(2 * h) :
               ValueOf(bufs, v)[k] = IF k <= h THEN ValueOf(bufs, lo)[k]
                                              ELSE ValueOf(bufs, hi)[k - h]

\* The step has changed limb k of the view v to the value x and no other limb
\* of v.
OnlyLimb(v, k, x) ==
    \A j \in 0..(size(v) - 1) :
        LimbAt(bufs', v.mp_d, j) = IF j = k THEN x ELSE LimbAt(bufs, v.mp_d, j)

\* C12: for a view of logical size 2S over a buffer, low_view() covers limbs
\* [0,S) and high_view() limbs [S,2S) of the same storage, disjoint, each of
\* logical size S, together the 2S limbs unchanged; a write through either
\* sub-view (make_odd, make_even) changes exactly the corresponding limb of
\* the parent.
C12_LowHighRoundTrip ==
    /\ [](\A i \in ViewSlots : Whole(i) => Halves(views[i]))
    /\ [][ \A i \in {"d", "s"} :
             (Whole(i) /\ size(views[i]) >= 2) =>
                LET v  == views[i]
                    h  == size(v) \div 2
                    l0 == LimbAt(bufs, v.mp_d, 0)
                    lh == LimbAt(bufs, v.mp_d, h)
                IN  /\ (views["v"] = low_view(v) /\ MakeOdd("v")) =>
                           ~aborted' /\ OnlyLimb(v, 0, l0 - (l0 % 2) + 1)
                    /\ (views["v"] = low_view(v) /\ MakeEven("v")) =>
                           ~aborted' /\ OnlyLimb(v, 0, l0 - (l0 % 2))
                    /\ (views["v"] = high_view(v) /\ MakeOdd("v")) =>
                           ~aborted' /\ OnlyLimb(v, h, lh - (lh % 2) + 1)
                    /\ (views["v"] = high_view(v) /\ MakeEven("v")) =>
                           ~aborted' /\ OnlyLimb(v, h, lh - (lh % 2)) ]_vars

\* A view d of four limbs 0, 1, 2, 3 whose limb 2 has been made odd through
\* its high view.
C12_Witness ==
    /\ views["d"] # NoView
    /\ size(views["d"]) = 4
    /\ views["v"] = high_view(views["d"])
    /\ bufs.array_d = <<0, 1, 3, 3>>

\* The step has changed no limb of any array but the limb ptr points to.
OtherLimbsKept(ptr) ==
    \A b \in DOMAIN bufs : \A k \in 1..Len(bufs[b]) :
        (b # ptr.buf \/ k # ptr.off + 1) => bufs'[b][k] = bufs[b][k]

\* The effect claimed of make_odd (bit = 1) and make_even (bit = 0) on
\* views[i]: with logical size >= 1 bit 0 of limb 0 becomes bit, nothing else
\* changes; with logical size 0 an assert fails.
ParityEffect(i, bit) ==
    IF size(views[i]) >= 1
    THEN /\ ~aborted'
         /\ views' = views
         /\ LimbAt(bufs', views[i].mp_d, 0) % 2 = bit
         /\ LimbAt(bufs', views[i].mp_d, 0) \div 2 = LimbAt(bufs, views[i].mp_d, 0) \div 2
         /\ OtherLimbsKept(views[i].mp_d)
    ELSE aborted' /\ views' = views /\ bufs' = bufs

\* C13: on a view of logical size >= 1 make_odd() sets bit 0 of limb 0 and
\* make_even() clears it; every other bit of limb 0, every other limb, the
\* logical size and the capacity are unchanged, and doing it again changes
\* nothing; on a view of logical size 0 either fails an assert.
C13_ParityFrame ==
    [][ \A i \in ViewSlots :
          /\ MakeOdd(i) => (ParityEffect(i, 1) /\ (~aborted' => make_odd(bufs', views[i]) = bufs'))
          /\ MakeEven(i) => (ParityEffect(i, 0) /\ (~aborted' => make_even(bufs', views[i]) = bufs')) ]_vars

\* A view d of four limbs 3, 2, 1, 0 whose limb 0 has been made even.
C13_Witness ==
    /\ views["d"] # NoView
    /\ size(views["d"]) = 4
    /\ bufs.array_d = <<2, 2, 1, 0>>

\* The step has stored the words w[1 .. n] in the limbs [0, n) of the view v
\* and has changed no other limb of any array.
ExactlyFilled(v, n, w) ==
    /\ \A k \in 0..(n - 1) : LimbAt(bufs', v.mp_d, k) = w[k + 1]
    /\ \A b \in DOMAIN bufs : \A k \in 1..Len(bufs[b]) :
           (b # v.mp_d.buf \/ k <= v.mp_d.off \/ k > v.mp_d.off + n) => bufs'[b][k] = bufs[b][k]

\* C14: randomize(gen, n) with 1 <= n <= capacity sets the logical size to n
\* and overwrites exactly limbs [0, n); with the size omitted (0) it does so
\* with n = capacity; with n above the capacity, or on a view without storage,
\* an assert fails, no limb is written and the logical size is unchanged.
C14_Randomize ==
    [][ \A i \in ViewSlots : \A sz \in SizesFor(i) : \A w \in ViewWords(Len(bufs.array_d)) :
          Randomize(i, sz, w) =>
              IF views[i].mp_d # NULL /\ sz <= capacity(views[i])
              THEN LET n == IF sz >= 1 THEN sz ELSE capacity(views[i])
                   IN  /\ ~aborted'
                       /\ size(views'[i]) = n
                       /\ capacity(views'[i]) = capacity(views[i])
                       /\ views'[i].mp_d = views[i].mp_d
                       /\ \A j \in ViewSlots \ {i} : views'[j] = views[j]
                       /\ ExactlyFilled(views[i], n, w)
              ELSE aborted' /\ views' = views /\ bufs' = bufs ]_vars

\* A view d of capacity four whose limbs [0, 2) have been randomized with the
\* words 3, 2 and whose limbs [2, 4) still hold what the array held before.
C14_Witness ==
    /\ views["d"] # NoView
    /\ capacity(views["d"]) = 4
    /\ size(views["d"]) = 2
    /\ bufs.array_d = <<3, 2, 0, 0>>

---------------------------------------------------------------------------
(* Claims about the two arrays of a generator. *)

StateArrays == {"_state_storage_0", "_state_storage_1"}

\* The state pointer and the destination pointer of g point into the two
\* different state arrays.
PingPong(g) ==
    /\ g._state.mp_d.buf \in StateArrays
    /\ g._destination.buf \in StateArrays
    /\ g._state.mp_d.buf # g._destination.buf

\* The step from g to h has exchanged the state pointer and the destination
\* pointer, and has changed no limb of the array that held the state.
Exchanged(g, h) ==
    /\ h._state.mp_d = g._destination
    /\ h._destination = g._state.mp_d
    /\ h.mem[g._state.mp_d.buf] = g.mem[g._state.mp_d.buf]

\* C16: in every reachable state of GMPRng and GMPRng2 the state pointer and
\* the destination pointer point into the two different arrays of the
\* instance; every multiply exchanges the two, so the array holding the state
\* alternates, and the swap copies no limb; a call without multiply leaves
\* both pointers and every limb alone.
C16_PingPong ==
    /\ [](/\ rng # <<>> => PingPong(rng)
          /\ rng2 # <<>> => PingPong(rng2))
    /\ [][ /\ RngCall => Exchanged(rng, rng')
           /\ Rng2Refresh => Exchanged(rng2, rng2')
           /\ Rng2Stream => /\ rng2'._state = rng2._state
                            /\ rng2'._destination = rng2._destination
                            /\ rng2'.mem = rng2.mem ]_vars

\* A GMPRng<4> whose state, after two calls, is in _state_storage_0 again.
C16_Witness ==
    /\ S = 4
    /\ rng # <<>>
    /\ Len(out) = 2
    /\ rng._state.mp_d.buf = "_state_storage_0"
    /\ rng._destination.buf = "_state_storage_1"

\* The limbs [lo, hi) of the array b.
LimbsOf(b, lo, hi) == { <<b, k>> : k \in lo..(hi - 1) }

\* The limbs of the arrays of a GMPRng2<S>.
Allocated ==
    LimbsOf("_state_storage_0", 0, 2 * S) \cup LimbsOf("_state_storage_1", 0, 2 * S)
        \cup LimbsOf("_multiplier_storage", 0, S)

\* C17: in every reachable state of a GMPRng2<S> the state occupies limbs
\* [S-1, 2S-1) of the active array (after construction nothing else of the two
\* arrays has been written), the multiply of a refresh writes its S+2 result
\* limbs to [S-2, 2S) of the inactive array, operator() reads the state limbs
\* of index 0 .. S-1 only, and every limb accessed lies inside the arrays of
\* the instance.
C17_Rng2Bounds ==
    rng2 # <<>> =>
        /\ PingPong(rng2)
        /\ size(rng2._state) = S
        /\ Range(rng2._state.mp_d, S) = LimbsOf(rng2._state.mp_d.buf, S - 1, 2 * S - 1)
        /\ advance_writes(rng2, S) = LimbsOf(rng2._destination.buf, S - 2, 2 * S)
        /\ rng2._limb \in 0..S
        /\ rng2._limb # S =>
               call_accesses(rng2, S) \subseteq LimbsOf(rng2._state.mp_d.buf, S - 1, 2 * S - 1)
        /\ call_accesses(rng2, S) \subseteq Allocated
        /\ Len(out2) = 0 =>
               \E fill \in Indeterminate :
                   /\ \A k \in (1..(2 * S)) \ (S..(2 * S - 1)) : rng2.mem._state_storage_0[k] = fill
                   /\ \A k \in 1..(2 * S) : rng2.mem._state_storage_1[k] = fill

\* A GMPRng2<4> that has just been refreshed: its state is limbs [3, 7) of
\* _state_storage_1.
C17_Witness ==
    /\ S = 4
    /\ rng2 # <<>>
    /\ rng2._state.mp_d = Ptr("_state_storage_1", 3)
    /\ rng2._limb = 1

===========================================================================
